---- MODULE Spec2Model ----
(***************************************************************************)
(* Nested-transaction state machine of sqlx-runner (tx.go): one Tx wraps   *)
(* one sqlx.Tx handle, keeps a logical state, a stack of suspended states  *)
(* and the sticky IsRollbacked flag.  Spec runs the five operations one    *)
(* call at a time; SpecConc runs them from several goroutines, statement   *)
(* by statement, under the Tx's mutex.                                     *)
(***************************************************************************)
EXTENDS Integers, Sequences, FiniteSets, TLC

\* Calls made on the Tx in one behaviour of Spec.
MaxCalls == 5

\* Goroutines sharing the Tx, and calls they start, in one behaviour of SpecConc.
NumThreads == 2
MaxConcCalls == 2

\* The watchdog's grace period (one minute) in clock ticks, and the calls made
\* on the Tx in one behaviour of SpecWatch.
GraceTicks == 2
MaxWatchCalls == 2

\* Ticks the backoff ticker can deliver to MustPing before it gives up.
MaxTicks == 30
\* Nested scopes a caller opens under the root scope.
MaxScopes == 3

\* const ( txPending = iota; txCommitted; txRollbacked; txErred )
txPending == 0
txCommitted == 1
txRollbacked == 2
txErred == 3

\* The values a call returns.
Nil == "nil"
ErrTxRollbacked == "Nested transaction already rolled back"
ErrCommitted == "transaction has already been commited"
ErrRolledBack == "transaction has already been rolled back"
ErrRollbackCommitted == "cannot rollback, transaction has already been commited"
ErrDriver == "driver error"
ErrUnableToRollback == "Unable to rollback: driver error"
ErrAutoRollback == "transaction.AutoRollback.rollback_error: driver error"
\* logger.Fatal: the process exits inside the call, which never returns.
Fatal == "fatal"

Ops == {"Begin", "Commit", "Rollback", "AutoCommit", "AutoRollback"}
Threads == 1..NumThreads

VARIABLES
    tx,       \* the Tx struct: IsRollbacked, state, stateStack
    handle,   \* the embedded *sqlx.Tx: the Commit and Rollback calls it received
    Strict,   \* dat.Strict
    exited,   \* the process was terminated by logger.Fatal
    hist,     \* the calls completed so far, in order: op, ret, call, ok, by, at
    pre,      \* tx and handle as they were when the last call of hist began
    mutex,    \* the Tx's sync.Mutex: 0 when free, else the goroutine holding it
    pc,       \* each goroutine's position in the call it is making
    frame,    \* each goroutine's call: op, at, and the locals err (as ok), call, ret
    watch,    \* the leak watchdog of WrapSqlxTx: armed, now, fired, panicked
    mp        \* a MustPing call and its ticker: pc, ticks, pings, fails, stopped

vars == <<tx, handle, Strict, exited, hist, pre, mutex, pc, frame, watch, mp>>
concVars == <<mutex, pc, frame>>

\* ------------------------------------------------------------------ Tx

\* WrapSqlxTx: a new Tx has the zero values of its fields.
NewTx == [IsRollbacked |-> FALSE, state |-> txPending, stateStack |-> <<>>]
NewHandle == [commits |-> 0, rollbacks |-> 0]

pushState(t) ==
    [t EXCEPT !.stateStack = Append(@, t.state), !.state = txPending]

\* popState dropping every saved state instead of the last one.
popState_clear(t) ==
    IF Len(t.stateStack) = 0
    THEN t
    ELSE [t EXCEPT !.state = t.stateStack[1], !.stateStack = <<>>]

popState(t) ==
    IF Len(t.stateStack) = 0
    THEN t
    ELSE [t EXCEPT !.state = t.stateStack[Len(t.stateStack)],
                   !.stateStack = SubSeq(@, 1, Len(@) - 1)]

\* What one call does: the Tx it leaves, the value it returns, and the call
\* ("none", "Commit", "Rollback") it made on the handle.
Out(t, ret, call) == [tx |-> t, ret |-> ret, call |-> call]

TxBegin(t) ==
    IF t.IsRollbacked
    THEN Out(t, ErrTxRollbacked, "none")
    ELSE Out(pushState(t), Nil, "none")

\* Commit without the IsRollbacked check.
TxCommit_nosticky(t, ok) ==
    IF t.state = txCommitted THEN Out(t, ErrCommitted, "none")
    ELSE IF t.state = txRollbacked THEN Out(t, ErrRolledBack, "none")
    ELSE IF Len(t.stateStack) = 0 /\ ~ok
    THEN Out([t EXCEPT !.state = txErred], ErrDriver, "Commit")
    ELSE Out([t EXCEPT !.state = txCommitted], Nil,
             IF Len(t.stateStack) = 0 THEN "Commit" ELSE "none")

\* Commit without the txCommitted check.
TxCommit_nocommitted(t, ok) ==
    IF t.IsRollbacked THEN Out(t, ErrTxRollbacked, "none")
    ELSE IF t.state = txRollbacked THEN Out(t, ErrRolledBack, "none")
    ELSE IF Len(t.stateStack) = 0 /\ ~ok
    THEN Out([t EXCEPT !.state = txErred], ErrDriver, "Commit")
    ELSE Out([t EXCEPT !.state = txCommitted], Nil,
             IF Len(t.stateStack) = 0 THEN "Commit" ELSE "none")

\* Commit calling the handle at every depth.
TxCommit_always(t, ok) ==
    IF t.IsRollbacked THEN Out(t, ErrTxRollbacked, "none")
    ELSE IF t.state = txCommitted THEN Out(t, ErrCommitted, "none")
    ELSE IF t.state = txRollbacked THEN Out(t, ErrRolledBack, "none")
    ELSE IF ~ok
    THEN Out([t EXCEPT !.state = txErred], ErrDriver, "Commit")
    ELSE Out([t EXCEPT !.state = txCommitted], Nil, "Commit")

\* Commit that goes on to set Committed after a failed handle call.
TxCommit_noreturn(t, ok) ==
    IF t.IsRollbacked THEN Out(t, ErrTxRollbacked, "none")
    ELSE IF t.state = txCommitted THEN Out(t, ErrCommitted, "none")
    ELSE IF t.state = txRollbacked THEN Out(t, ErrRolledBack, "none")
    ELSE Out([t EXCEPT !.state = txCommitted], IF Len(t.stateStack) = 0 /\ ~ok THEN ErrDriver ELSE Nil,
             IF Len(t.stateStack) = 0 THEN "Commit" ELSE "none")

\* ok: the handle call, if this call reaches it, returns no error.
TxCommit(t, ok) ==
    IF t.IsRollbacked THEN Out(t, ErrTxRollbacked, "none")
    ELSE IF t.state = txCommitted THEN Out(t, ErrCommitted, "none")
    ELSE IF t.state = txRollbacked THEN Out(t, ErrRolledBack, "none")
    ELSE IF Len(t.stateStack) = 0 /\ ~ok
    THEN Out([t EXCEPT !.state = txErred], ErrDriver, "Commit")
    ELSE Out([t EXCEPT !.state = txCommitted], Nil,
             IF Len(t.stateStack) = 0 THEN "Commit" ELSE "none")

\* Rollback calling the handle only from the root scope, as Commit does.
TxRollback_rootonly(t, ok) ==
    IF t.IsRollbacked THEN Out(t, ErrTxRollbacked, "none")
    ELSE IF t.state = txCommitted THEN Out(t, ErrRollbackCommitted, "none")
    ELSE IF Len(t.stateStack) = 0 /\ ~ok
    THEN Out([t EXCEPT !.state = txErred], ErrUnableToRollback, "Rollback")
    ELSE Out([t EXCEPT !.state = txRollbacked, !.IsRollbacked = TRUE], Nil,
             IF Len(t.stateStack) = 0 THEN "Rollback" ELSE "none")

\* Rollback without the txCommitted check.
TxRollback_nocommitted(t, ok) ==
    IF t.IsRollbacked THEN Out(t, ErrTxRollbacked, "none")
    ELSE IF ~ok
    THEN Out([t EXCEPT !.state = txErred], ErrUnableToRollback, "Rollback")
    ELSE Out([t EXCEPT !.state = txRollbacked, !.IsRollbacked = TRUE], Nil, "Rollback")

\* Rollback that sets the state but not the sticky flag.
TxRollback_nosticky(t, ok) ==
    IF t.IsRollbacked THEN Out(t, ErrTxRollbacked, "none")
    ELSE IF t.state = txCommitted THEN Out(t, ErrRollbackCommitted, "none")
    ELSE IF ~ok
    THEN Out([t EXCEPT !.state = txErred], ErrUnableToRollback, "Rollback")
    ELSE Out([t EXCEPT !.state = txRollbacked], Nil, "Rollback")

TxRollback(t, ok) ==
    IF t.IsRollbacked THEN Out(t, ErrTxRollbacked, "none")
    ELSE IF t.state = txCommitted THEN Out(t, ErrRollbackCommitted, "none")
    ELSE IF ~ok
    THEN Out([t EXCEPT !.state = txErred], ErrUnableToRollback, "Rollback")
    ELSE Out([t EXCEPT !.state = txRollbacked, !.IsRollbacked = TRUE], Nil, "Rollback")

\* AutoCommit returning the handle's error under dat.Strict too.
TxAutoCommit_nofatal(t, ok, strict) ==
    IF t.state = txRollbacked \/ t.IsRollbacked
    THEN Out(popState(t), Nil, "none")
    ELSE IF ~ok
    THEN Out(popState([t EXCEPT !.state = txErred]), ErrDriver, "Commit")
    ELSE Out(popState([t EXCEPT !.state = txCommitted]), Nil, "Commit")

\* strict: dat.Strict, under which a failed handle call ends in logger.Fatal.
TxAutoCommit(t, ok, strict) ==
    IF t.state = txRollbacked \/ t.IsRollbacked
    THEN Out(popState(t), Nil, "none")
    ELSE IF ~ok
    THEN IF strict
         THEN Out([t EXCEPT !.state = txErred], Fatal, "Commit")
         ELSE Out(popState([t EXCEPT !.state = txErred]), ErrDriver, "Commit")
    ELSE Out(popState([t EXCEPT !.state = txCommitted]), Nil, "Commit")

\* AutoRollback without the txCommitted check.
TxAutoRollback_nocommitted(t, ok, strict) ==
    IF t.IsRollbacked
    THEN Out(popState(t), Nil, "none")
    ELSE IF ~ok
    THEN IF strict
         THEN Out([t EXCEPT !.state = txErred], Fatal, "Rollback")
         ELSE Out(popState([t EXCEPT !.state = txErred]), ErrAutoRollback, "Rollback")
    ELSE Out(popState([t EXCEPT !.state = txRollbacked, !.IsRollbacked = TRUE]),
             Nil, "Rollback")

\* AutoRollback whose early return leaves the saved state on the stack.
TxAutoRollback_nopop(t, ok, strict) ==
    IF t.IsRollbacked \/ t.state = txCommitted
    THEN Out(t, Nil, "none")
    ELSE IF ~ok
    THEN IF strict
         THEN Out([t EXCEPT !.state = txErred], Fatal, "Rollback")
         ELSE Out(popState([t EXCEPT !.state = txErred]), ErrAutoRollback, "Rollback")
    ELSE Out(popState([t EXCEPT !.state = txRollbacked, !.IsRollbacked = TRUE]),
             Nil, "Rollback")

TxAutoRollback(t, ok, strict) ==
    IF t.IsRollbacked \/ t.state = txCommitted
    THEN Out(popState(t), Nil, "none")
    ELSE IF ~ok
    THEN IF strict
         THEN Out([t EXCEPT !.state = txErred], Fatal, "Rollback")
         ELSE Out(popState([t EXCEPT !.state = txErred]), ErrAutoRollback, "Rollback")
    ELSE Out(popState([t EXCEPT !.state = txRollbacked, !.IsRollbacked = TRUE]),
             Nil, "Rollback")

\* The handle after a call made on it.
Received(h, call) ==
    CASE call = "Commit" -> [h EXCEPT !.commits = @ + 1]
      [] call = "Rollback" -> [h EXCEPT !.rollbacks = @ + 1]
      [] OTHER -> h

\* The entry of hist for a completed call: ok is TRUE unless a handle call
\* failed, by is the calling goroutine, at the number of calls that had
\* completed when this one was made.
Entry(op, ret, call, ok, by, at) ==
    [op |-> op, ret |-> ret, call |-> call, ok |-> (call = "none" \/ ok),
     by |-> by, at |-> at]

\* A goroutine that is making no call.
NoFrame == [op |-> "none", at |-> 0, ok |-> TRUE, call |-> "none", ret |-> Nil]

\* WrapSqlxTx: under dat.Strict the new Tx gets a timer (time.AfterFunc) that
\* checks it once the grace period has passed; now counts the time since then.
NewWatch(strict) == [armed |-> strict, now |-> 0, fired |-> FALSE, panicked |-> FALSE]

\* MustPing before its first tick: blocked in `for range ticker.C`.
NewPing == [pc |-> "wait", ticks |-> 0, pings |-> 0, fails |-> 0, stopped |-> FALSE]

\* ------------------------------------------------------- Spec: one caller

Init ==
    /\ tx = NewTx
    /\ handle = NewHandle
    /\ Strict \in BOOLEAN
    /\ exited = FALSE
    /\ hist = <<>>
    /\ pre = [tx |-> NewTx, handle |-> NewHandle]
    /\ mutex = 0
    /\ pc = [t \in Threads |-> "idle"]
    /\ frame = [t \in Threads |-> NoFrame]
    /\ watch = NewWatch(Strict)
    /\ mp = NewPing

\* Each action is one whole call: Lock, the body, the deferred Unlock.  It
\* saves the Tx and the handle in pre and appends the call to hist.
Begin ==
    LET o == TxBegin(tx)
    IN  /\ ~exited
        /\ pre' = [tx |-> tx, handle |-> handle]
        /\ tx' = o.tx
        /\ handle' = Received(handle, o.call)
        /\ exited' = (o.ret = Fatal)
        /\ hist' = Append(hist, Entry("Begin", o.ret, o.call, TRUE, 1, Len(hist)))
        /\ UNCHANGED <<Strict, concVars, watch, mp>>

Commit ==
    \E ok \in BOOLEAN :
        LET o == TxCommit(tx, ok)
        IN  /\ ~exited
            /\ pre' = [tx |-> tx, handle |-> handle]
            /\ tx' = o.tx
            /\ handle' = Received(handle, o.call)
            /\ exited' = (o.ret = Fatal)
            /\ hist' = Append(hist, Entry("Commit", o.ret, o.call, ok, 1, Len(hist)))
            /\ UNCHANGED <<Strict, concVars, watch, mp>>

Rollback ==
    \E ok \in BOOLEAN :
        LET o == TxRollback(tx, ok)
        IN  /\ ~exited
            /\ pre' = [tx |-> tx, handle |-> handle]
            /\ tx' = o.tx
            /\ handle' = Received(handle, o.call)
            /\ exited' = (o.ret = Fatal)
            /\ hist' = Append(hist, Entry("Rollback", o.ret, o.call, ok, 1, Len(hist)))
            /\ UNCHANGED <<Strict, concVars, watch, mp>>

AutoCommit ==
    \E ok \in BOOLEAN :
        LET o == TxAutoCommit(tx, ok, Strict)
        IN  /\ ~exited
            /\ pre' = [tx |-> tx, handle |-> handle]
            /\ tx' = o.tx
            /\ handle' = Received(handle, o.call)
            /\ exited' = (o.ret = Fatal)
            /\ hist' = Append(hist, Entry("AutoCommit", o.ret, o.call, ok, 1, Len(hist)))
            /\ UNCHANGED <<Strict, concVars, watch, mp>>

AutoRollback ==
    \E ok \in BOOLEAN :
        LET o == TxAutoRollback(tx, ok, Strict)
        IN  /\ ~exited
            /\ pre' = [tx |-> tx, handle |-> handle]
            /\ tx' = o.tx
            /\ handle' = Received(handle, o.call)
            /\ exited' = (o.ret = Fatal)
            /\ hist' = Append(hist, Entry("AutoRollback", o.ret, o.call, ok, 1, Len(hist)))
            /\ UNCHANGED <<Strict, concVars, watch, mp>>

Next ==
    \/ Len(hist) < MaxCalls /\ Begin
    \/ Len(hist) < MaxCalls /\ Commit
    \/ Len(hist) < MaxCalls /\ Rollback
    \/ Len(hist) < MaxCalls /\ AutoCommit
    \/ Len(hist) < MaxCalls /\ AutoRollback

Spec == Init /\ [][Next]_vars

\* ------------------------------------------------- properties of Spec

Last == hist[Len(hist)]
Called(op) == Len(hist) > 0 /\ Last.op = op

\* The stack with its last entry removed, if it has one.
Popped(stk) == SubSeq(stk, 1, IF Len(stk) = 0 THEN 0 ELSE Len(stk) - 1)

\* C1: over the whole life of a Tx, whatever calls are made on it, the handle
\* receives at most one Commit call and at most one Rollback call.
C1_AtMostOneCommitAndOneRollback ==
    handle.commits <= 1 /\ handle.rollbacks <= 1

\* C2: once IsRollbacked is true it stays true, and every later Commit and
\* every later Begin returns ErrTxRollbacked.
C2_RollbackIsTerminal ==
    [][tx.IsRollbacked =>
        /\ tx'.IsRollbacked
        /\ (Len(hist') > Len(hist) /\ hist'[Len(hist')].op \in {"Begin", "Commit"}
              => hist'[Len(hist')].ret = ErrTxRollbacked)]_vars

\* A Commit made on a rolled-back Tx inside a nested scope has returned.
C2_Witness ==
    /\ Called("Commit")
    /\ pre.tx.IsRollbacked
    /\ Len(pre.tx.stateStack) > 0
    /\ Last.ret = ErrTxRollbacked

\* C3: on a fresh Tx, Begin then AutoCommit leaves the Tx as it was (Pending,
\* empty stack) with no Commit received by the handle; a following Commit whose
\* handle call succeeds returns nil and is the only Commit the handle receives.
C3_NestedAutoCommitLeavesHandleUntouched ==
    (Len(hist) >= 2 /\ hist[1].op = "Begin" /\ hist[2].op = "AutoCommit") =>
        /\ Len(hist) = 2 => tx = NewTx /\ handle.commits = 0
        /\ (Len(hist) = 3 /\ Last.op = "Commit" /\ Last.ok) =>
               Last.ret = Nil /\ handle.commits = 1

\* C4: AutoCommit called on a Tx that is Committed, RolledBack or IsRollbacked
\* makes no call on the handle, pops one entry of the stack (if any) and
\* returns nil.
C4_AutoCommitNoopWhenClosed ==
    (/\ Called("AutoCommit")
     /\ \/ pre.tx.state = txCommitted
        \/ pre.tx.state = txRollbacked
        \/ pre.tx.IsRollbacked) =>
        /\ handle = pre.handle
        /\ tx.stateStack = Popped(pre.tx.stateStack)
        /\ Last.ret = Nil

\* C5: AutoRollback called with IsRollbacked true or state Committed makes no
\* call on the handle, pops one entry (if any) and returns nil; otherwise it
\* makes one Rollback call on the handle and, when that succeeds, sets state
\* RolledBack and IsRollbacked and then pops.
C5_AutoRollback ==
    Called("AutoRollback") =>
        IF pre.tx.IsRollbacked \/ pre.tx.state = txCommitted
        THEN /\ handle = pre.handle
             /\ tx.stateStack = Popped(pre.tx.stateStack)
             /\ tx.IsRollbacked = pre.tx.IsRollbacked
             /\ tx.state = IF Len(pre.tx.stateStack) = 0 THEN pre.tx.state
                           ELSE pre.tx.stateStack[Len(pre.tx.stateStack)]
             /\ Last.ret = Nil
        ELSE /\ handle.rollbacks = pre.handle.rollbacks + 1
             /\ handle.commits = pre.handle.commits
             /\ Last.ok =>
                  /\ tx.IsRollbacked
                  /\ tx.stateStack = Popped(pre.tx.stateStack)
                  /\ tx.state = IF Len(pre.tx.stateStack) = 0 THEN txRollbacked
                                ELSE pre.tx.stateStack[Len(pre.tx.stateStack)]
                  /\ Last.ret = Nil

\* An AutoRollback that rolled back for real inside a nested scope, followed by
\* an AutoRollback that found the Tx rolled back and only popped.
C5_Witness ==
    /\ Len(hist) >= 3
    /\ hist[Len(hist) - 1].op = "AutoRollback"
    /\ hist[Len(hist) - 1].call = "Rollback"
    /\ hist[Len(hist) - 1].ok
    /\ Called("AutoRollback")
    /\ Last.call = "none"
    /\ Len(pre.tx.stateStack) > 0

\* C6: on a fresh unnested Tx whose handle Commit succeeds, the first Commit
\* returns nil after exactly one handle Commit, and a second Commit returns the
\* already-committed error and makes no call on the handle.
C6_CommitTwice ==
    (/\ Len(hist) >= 2
     /\ hist[1].op = "Commit" /\ hist[1].ok
     /\ hist[2].op = "Commit") =>
        /\ hist[1].ret = Nil /\ hist[1].call = "Commit"
        /\ hist[2].ret = ErrCommitted /\ hist[2].call = "none"
        /\ Len(hist) = 2 => handle = [commits |-> 1, rollbacks |-> 0]

C6_Witness ==
    /\ Len(hist) = 2
    /\ hist[1].op = "Commit" /\ hist[1].ret = Nil
    /\ hist[2].op = "Commit" /\ hist[2].ret = ErrCommitted
    /\ handle.commits = 1

\* C7: a Rollback made with IsRollbacked false and state not Committed calls
\* the handle's Rollback in that call at any depth and, when it succeeds, sets
\* state RolledBack and IsRollbacked; after Begin and a successful Rollback on
\* a fresh Tx, Commit returns ErrTxRollbacked and makes no call on the handle.
C7_RollbackForwardedAtEveryDepth ==
    /\ (Called("Rollback") /\ ~pre.tx.IsRollbacked /\ pre.tx.state # txCommitted) =>
          /\ handle.rollbacks = pre.handle.rollbacks + 1
          /\ handle.commits = pre.handle.commits
          /\ Last.call = "Rollback"
          /\ Last.ok => tx.state = txRollbacked /\ tx.IsRollbacked /\ Last.ret = Nil
    /\ (/\ Len(hist) >= 3
        /\ hist[1].op = "Begin"
        /\ hist[2].op = "Rollback" /\ hist[2].ok
        /\ hist[3].op = "Commit") =>
          /\ hist[2].call = "Rollback"
          /\ hist[3].ret = ErrTxRollbacked /\ hist[3].call = "none"
          /\ Len(hist) = 3 => handle = [commits |-> 0, rollbacks |-> 1]

C7_Witness ==
    /\ Len(hist) = 3
    /\ hist[1].op = "Begin" /\ hist[1].ret = Nil
    /\ hist[2].op = "Rollback" /\ hist[2].ret = Nil
    /\ hist[3].op = "Commit" /\ hist[3].ret = ErrTxRollbacked
    /\ Len(tx.stateStack) = 1
    /\ handle.rollbacks = 1

\* C8: a Commit made in a nested scope (stack non-empty, state Pending,
\* IsRollbacked false) makes no call on the handle, sets state Committed,
\* returns nil and leaves stateStack and IsRollbacked as they were; Commit
\* calls the handle only when the stack is empty.
C8_NestedCommitIsBookkeeping ==
    /\ (/\ Called("Commit")
        /\ Len(pre.tx.stateStack) > 0
        /\ pre.tx.state = txPending
        /\ ~pre.tx.IsRollbacked) =>
          /\ handle = pre.handle
          /\ Last.call = "none"
          /\ tx.state = txCommitted
          /\ tx.stateStack = pre.tx.stateStack
          /\ tx.IsRollbacked = pre.tx.IsRollbacked
          /\ Last.ret = Nil
    /\ (Called("Commit") /\ handle # pre.handle) => Len(pre.tx.stateStack) = 0

C8_Witness ==
    /\ Called("Commit")
    /\ Len(pre.tx.stateStack) = 2
    /\ pre.tx.state = txPending
    /\ ~pre.tx.IsRollbacked
    /\ tx.state = txCommitted

\* The nesting depth after the calls of h: a Begin that returned nil adds one,
\* an AutoCommit or AutoRollback that returned takes one off unless the depth
\* is 0, every other call leaves it.
RECURSIVE Depth(_)
Depth(h) ==
    IF Len(h) = 0 THEN 0
    ELSE LET d == Depth(SubSeq(h, 1, Len(h) - 1))
             e == h[Len(h)]
         IN  IF e.op = "Begin" /\ e.ret = Nil THEN d + 1
             ELSE IF e.op \in {"AutoCommit", "AutoRollback"} /\ e.ret # Fatal /\ d > 0
             THEN d - 1
             ELSE d

\* h is k Begins that returned nil followed by k AutoCommit/AutoRollback calls.
Balanced(h) ==
    /\ Len(h) > 0
    /\ Len(h) % 2 = 0
    /\ \A i \in 1..Len(h) :
          IF 2 * i <= Len(h)
          THEN h[i].op = "Begin" /\ h[i].ret = Nil
          ELSE h[i].op \in {"AutoCommit", "AutoRollback"} /\ h[i].ret # Fatal

\* C9: the length of stateStack is the nesting depth, the successful Begins
\* minus the AutoCommit/AutoRollback calls that popped; after k successful
\* Begins and then k AutoCommit/AutoRollback calls the stack is empty.
C9_StackLengthIsDepth ==
    /\ Len(tx.stateStack) = Depth(hist)
    /\ Balanced(hist) => tx.stateStack = <<>>

C9_Witness ==
    /\ Len(hist) = 4
    /\ Balanced(hist)
    /\ hist[3].op = "AutoCommit"
    /\ hist[4].op = "AutoRollback"
    /\ tx.stateStack = <<>>

\* ------------------------------------------- SpecConc: several goroutines

\* The statements of a method from Lock to the handle call or the return:
\* the Tx they leave, the value to return, and where the goroutine goes next
\* ("driver": tx.Tx.Commit/Rollback, "store": past it, "unlock": return).
Step(t, ret, to) == [tx |-> t, ret |-> ret, to |-> to]

Check(op, t) ==
    CASE op = "Begin" ->
           IF t.IsRollbacked THEN Step(t, ErrTxRollbacked, "unlock")
           ELSE Step(pushState(t), Nil, "unlock")
      [] op = "Commit" ->
           IF t.IsRollbacked THEN Step(t, ErrTxRollbacked, "unlock")
           ELSE IF t.state = txCommitted THEN Step(t, ErrCommitted, "unlock")
           ELSE IF t.state = txRollbacked THEN Step(t, ErrRolledBack, "unlock")
           ELSE IF Len(t.stateStack) = 0 THEN Step(t, Nil, "driver")
           ELSE Step(t, Nil, "store")
      [] op = "Rollback" ->
           IF t.IsRollbacked THEN Step(t, ErrTxRollbacked, "unlock")
           ELSE IF t.state = txCommitted THEN Step(t, ErrRollbackCommitted, "unlock")
           ELSE Step(t, Nil, "driver")
      [] op = "AutoCommit" ->
           IF t.state = txRollbacked \/ t.IsRollbacked
           THEN Step(popState(t), Nil, "unlock")
           ELSE Step(t, Nil, "driver")
      [] op = "AutoRollback" ->
           IF t.IsRollbacked \/ t.state = txCommitted
           THEN Step(popState(t), Nil, "unlock")
           ELSE Step(t, Nil, "driver")

\* The handle method each operation calls.
DriverCall(op) == IF op \in {"Commit", "AutoCommit"} THEN "Commit" ELSE "Rollback"

\* The statements after the handle call (or, for a nested Commit, after the
\* skipped one), ok telling whether err is nil; "exit" is logger.Fatal.
Finish(op, t, ok, strict) ==
    CASE op = "Commit" ->
           IF ~ok THEN Step([t EXCEPT !.state = txErred], ErrDriver, "unlock")
           ELSE Step([t EXCEPT !.state = txCommitted], Nil, "unlock")
      [] op = "Rollback" ->
           IF ~ok THEN Step([t EXCEPT !.state = txErred], ErrUnableToRollback, "unlock")
           ELSE Step([t EXCEPT !.state = txRollbacked, !.IsRollbacked = TRUE], Nil, "unlock")
      [] op = "AutoCommit" ->
           IF ~ok
           THEN IF strict
                THEN Step([t EXCEPT !.state = txErred], Fatal, "exit")
                ELSE Step(popState([t EXCEPT !.state = txErred]), ErrDriver, "unlock")
           ELSE Step(popState([t EXCEPT !.state = txCommitted]), Nil, "unlock")
      [] op = "AutoRollback" ->
           IF ~ok
           THEN IF strict
                THEN Step([t EXCEPT !.state = txErred], Fatal, "exit")
                ELSE Step(popState([t EXCEPT !.state = txErred]), ErrAutoRollback, "unlock")
           ELSE Step(popState([t EXCEPT !.state = txRollbacked, !.IsRollbacked = TRUE]),
                     Nil, "unlock")

\* Calls made so far: those completed and those in progress.
Started == Len(hist) + Cardinality({u \in Threads : pc[u] \notin {"idle", "exit"}})

\* A goroutine calls one of the five methods.
Call(t, op) ==
    /\ ~exited
    /\ pc[t] = "idle"
    /\ pc' = [pc EXCEPT ![t] = "lock"]
    /\ frame' = [frame EXCEPT ![t] = [NoFrame EXCEPT !.op = op, !.at = Len(hist)]]
    /\ UNCHANGED <<tx, handle, Strict, exited, hist, pre, mutex, watch, mp>>

\* Lock that does not wait for the holder.
Acquire_nowait(t) ==
    /\ ~exited
    /\ pc[t] = "lock"
    /\ mutex' = t
    /\ pc' = [pc EXCEPT ![t] = "body"]
    /\ UNCHANGED <<tx, handle, Strict, exited, hist, pre, frame, watch, mp>>

\* tx.Lock()
Acquire(t) ==
    /\ ~exited
    /\ pc[t] = "lock"
    /\ mutex = 0
    /\ mutex' = t
    /\ pc' = [pc EXCEPT ![t] = "body"]
    /\ UNCHANGED <<tx, handle, Strict, exited, hist, pre, frame, watch, mp>>

\* The state checks at the top of the method.
Body(t) ==
    /\ ~exited
    /\ pc[t] = "body"
    /\ LET s == Check(frame[t].op, tx)
       IN  /\ tx' = s.tx
           /\ frame' = [frame EXCEPT ![t].ret = s.ret]
           /\ pc' = [pc EXCEPT ![t] = s.to]
    /\ UNCHANGED <<handle, Strict, exited, hist, pre, mutex, watch, mp>>

\* err := tx.Tx.Commit() or tx.Tx.Rollback()
Driver(t) ==
    /\ ~exited
    /\ pc[t] = "driver"
    /\ \E ok \in BOOLEAN :
          /\ handle' = Received(handle, DriverCall(frame[t].op))
          /\ frame' = [frame EXCEPT ![t].ok = ok, ![t].call = DriverCall(frame[t].op)]
    /\ pc' = [pc EXCEPT ![t] = "store"]
    /\ UNCHANGED <<tx, Strict, exited, hist, pre, mutex, watch, mp>>

\* The statements after the handle call; logger.Fatal ends the process.
Store(t) ==
    /\ ~exited
    /\ pc[t] = "store"
    /\ LET s == Finish(frame[t].op, tx, frame[t].ok, Strict)
       IN  /\ tx' = s.tx
           /\ frame' = [frame EXCEPT ![t].ret = s.ret]
           /\ pc' = [pc EXCEPT ![t] = s.to]
           /\ exited' = (s.to = "exit")
           /\ hist' = IF s.to = "exit"
                      THEN Append(hist, Entry(frame[t].op, s.ret, frame[t].call,
                                              frame[t].ok, t, frame[t].at))
                      ELSE hist
    /\ UNCHANGED <<handle, Strict, pre, mutex, watch, mp>>

\* The deferred tx.Unlock() and the return.
Release(t) ==
    /\ ~exited
    /\ pc[t] = "unlock"
    /\ mutex' = 0
    /\ pc' = [pc EXCEPT ![t] = "idle"]
    /\ hist' = Append(hist, Entry(frame[t].op, frame[t].ret, frame[t].call,
                                  frame[t].ok, t, frame[t].at))
    /\ frame' = [frame EXCEPT ![t] = NoFrame]
    /\ UNCHANGED <<tx, handle, Strict, exited, pre, watch, mp>>

NextConc ==
    \E t \in Threads :
        \/ \E op \in Ops : Started < MaxConcCalls /\ Call(t, op)
        \/ Acquire(t)
        \/ Body(t)
        \/ Driver(t)
        \/ Store(t)
        \/ Release(t)

SpecConc == Init /\ [][NextConc]_vars

\* ---------------------------------------------- properties of SpecConc

\* The goroutines between Lock and Unlock.
InBody == {t \in Threads : pc[t] \in {"body", "driver", "store", "unlock", "exit"}}

\* The result of one whole call made alone.
Apply(op, t, ok, strict) ==
    CASE op = "Begin" -> TxBegin(t)
      [] op = "Commit" -> TxCommit(t, ok)
      [] op = "Rollback" -> TxRollback(t, ok)
      [] op = "AutoCommit" -> TxAutoCommit(t, ok, strict)
      [] op = "AutoRollback" -> TxAutoRollback(t, ok, strict)

\* The calls of h made one after the other on a new Tx, with the same handle
\* outcomes: the Tx and handle they leave, and whether each returns what h says.
RECURSIVE Replay(_)
Replay(h) ==
    IF Len(h) = 0
    THEN [tx |-> NewTx, handle |-> NewHandle, same |-> TRUE]
    ELSE LET r == Replay(SubSeq(h, 1, Len(h) - 1))
             e == h[Len(h)]
             o == Apply(e.op, r.tx, e.ok, Strict)
         IN  [tx |-> o.tx,
              handle |-> Received(r.handle, o.call),
              same |-> r.same /\ o.ret = e.ret /\ o.call = e.call]

\* C10: at most one goroutine is between Lock and Unlock at any time; whenever
\* no call is in its body, the Tx, the handle and every returned value are those
\* of the completed calls made one after the other in the order they returned;
\* two goroutines racing Commit on a new Tx whose handle Commit succeeds make
\* exactly one handle Commit and get exactly one nil.
C10_LockLinearizes ==
    /\ Cardinality(InBody) <= 1
    /\ Cardinality(InBody \ {t \in Threads : pc[t] = "exit"}) = 0 =>
          LET r == Replay(hist)
          IN  r.same /\ r.tx = tx /\ r.handle = handle
    /\ (/\ InBody = {}
        /\ Len(hist) = 2
        /\ hist[1].op = "Commit" /\ hist[2].op = "Commit"
        /\ hist[1].by # hist[2].by
        /\ hist[1].ok) =>
          /\ handle = [commits |-> 1, rollbacks |-> 0]
          /\ hist[1].ret = Nil
          /\ hist[2].ret # Nil

\* Two Commits that overlapped (the second was called before the first
\* returned) have both returned.
C10_Witness ==
    /\ InBody = {}
    /\ Len(hist) = 2
    /\ hist[1].op = "Commit" /\ hist[2].op = "Commit"
    /\ hist[1].by # hist[2].by
    /\ hist[2].at = 0
    /\ hist[1].ret = Nil
    /\ hist[2].ret = ErrCommitted
    /\ handle.commits = 1

\* ------------------------------- SpecHelpers: helpers sharing one root Tx

\* What each helper does with the Tx it is handed: tx.Begin(), its work,
\* tx.Commit(), and the deferred tx.AutoRollback().
HelperProg == <<"Begin", "Commit", "AutoRollback">>

\* The calls goroutine t has completed.
DoneBy(t) == Cardinality({i \in 1..Len(hist) : hist[i].by = t})

\* Helper t makes its next call.
HelperCall(t) ==
    /\ DoneBy(t) < Len(HelperProg)
    /\ Call(t, HelperProg[DoneBy(t) + 1])

\* A handle call that returns no error.
DriverOk(t) == Driver(t) /\ frame'[t].ok

NextHelpers ==
    \E t \in Threads :
        \/ HelperCall(t)
        \/ Acquire(t)
        \/ Body(t)
        \/ DriverOk(t)
        \/ Store(t)
        \/ Release(t)

SpecHelpers == Init /\ [][NextHelpers]_vars

\* C11: when every goroutine runs Begin, Commit, AutoRollback on the same new
\* Tx and no handle call fails, every Commit returns nil, the handle receives
\* no Rollback, IsRollbacked stays false, and once all have finished the stack
\* is empty and the state Pending.
C11_ConcurrentHelpersSafe ==
    /\ \A i \in 1..Len(hist) : hist[i].op = "Commit" => hist[i].ret = Nil
    /\ handle.rollbacks = 0
    /\ ~tx.IsRollbacked
    /\ (\A t \in Threads : DoneBy(t) = Len(HelperProg)) => tx = NewTx

\* ------------------------------------------- SpecWatch: the leak watchdog

\* The timer function's test: the Tx is still open.
Leaked(t) == ~t.IsRollbacked /\ t.state = txPending

\* The application assigns dat.Strict.
SetStrict ==
    /\ ~exited
    /\ Strict' = ~Strict
    /\ UNCHANGED <<tx, handle, exited, hist, pre, concVars, watch, mp>>

\* Time passes, up to the end of the grace period.
Tick ==
    /\ ~exited
    /\ watch.now < GraceTicks
    /\ watch' = [watch EXCEPT !.now = @ + 1]
    /\ UNCHANGED <<tx, handle, Strict, exited, hist, pre, concVars, mp>>

\* The timer function run whether or not WrapSqlxTx armed it, under the
\* value dat.Strict has by then.
Fire_strictnow ==
    /\ ~exited
    /\ Strict
    /\ ~watch.fired
    /\ watch.now >= GraceTicks
    /\ watch' = [watch EXCEPT !.fired = TRUE, !.panicked = Leaked(tx)]
    /\ exited' = Leaked(tx)
    /\ UNCHANGED <<tx, handle, Strict, hist, pre, concVars, mp>>

\* The timer function runs once the grace period has passed: it panics, which
\* ends the process, if the Tx is still open.
Fire ==
    /\ ~exited
    /\ watch.armed
    /\ ~watch.fired
    /\ watch.now >= GraceTicks
    /\ watch' = [watch EXCEPT !.fired = TRUE, !.panicked = Leaked(tx)]
    /\ exited' = Leaked(tx)
    /\ UNCHANGED <<tx, handle, Strict, hist, pre, concVars, mp>>

NextWatch ==
    \/ Len(hist) < MaxWatchCalls /\ Begin
    \/ Len(hist) < MaxWatchCalls /\ Commit
    \/ Len(hist) < MaxWatchCalls /\ Rollback
    \/ Len(hist) < MaxWatchCalls /\ AutoCommit
    \/ Len(hist) < MaxWatchCalls /\ AutoRollback
    \/ SetStrict
    \/ Tick
    \/ Fire

\* Time passes and the runtime runs a timer that is due.
SpecWatch == Init /\ [][NextWatch]_vars /\ WF_vars(Tick) /\ WF_vars(Fire)

\* A Commit, Rollback, AutoCommit or AutoRollback has been called.
CloseCalled == \E i \in 1..Len(hist) : hist[i].op # "Begin"

\* C12: the watchdog is armed exactly when the Tx is created under strict
\* mode; a Tx so created on which no commit or rollback is ever performed is
\* eventually found open by the watchdog, which ends the process, and not
\* before the grace period has passed; a Tx created with strict mode off is
\* never checked and never ends the process, whatever dat.Strict is later.
C12_LeakWatchdog ==
    /\ watch.armed = Strict
    /\ [](watch.panicked => watch.armed /\ watch.now >= GraceTicks /\ exited)
    /\ [](~watch.armed => ~watch.fired /\ ~watch.panicked)
    /\ <>(~watch.armed \/ watch.panicked \/ CloseCalled)

\* The watchdog has ended the process for a Tx on which only Begin was called.
C12_Witness ==
    /\ watch.panicked
    /\ exited
    /\ Len(hist) = 1
    /\ ~CloseCalled

\* ------------------------------------------------- SpecPing: MustPing

\* `for range ticker.C` receives a tick.
Receive ==
    /\ mp.pc = "wait"
    /\ mp.ticks < MaxTicks
    /\ mp' = [mp EXCEPT !.pc = "ping", !.ticks = @ + 1]
    /\ UNCHANGED <<tx, handle, Strict, exited, hist, pre, concVars, watch>>

\* A loop body that goes back for the next tick after a successful Ping.
Ping_nostop ==
    /\ mp.pc = "ping"
    /\ \E ok \in BOOLEAN :
          mp' = IF ok
                THEN [mp EXCEPT !.pings = @ + 1, !.pc = "wait"]
                ELSE [mp EXCEPT !.pings = @ + 1, !.fails = @ + 1, !.pc = "wait"]
    /\ UNCHANGED <<tx, handle, Strict, exited, hist, pre, concVars, watch>>

\* The loop body: db.Ping(); on an error continue, else ticker.Stop() and return.
Ping ==
    /\ mp.pc = "ping"
    /\ \E ok \in BOOLEAN :
          mp' = IF ok
                THEN [mp EXCEPT !.pings = @ + 1, !.stopped = TRUE, !.pc = "returned"]
                ELSE [mp EXCEPT !.pings = @ + 1, !.fails = @ + 1, !.pc = "wait"]
    /\ UNCHANGED <<tx, handle, Strict, exited, hist, pre, concVars, watch>>

\* The loop finds ticker.C closed and ends: panic("Could not ping database!").
ChannelClosed ==
    /\ mp.pc = "wait"
    /\ mp' = [mp EXCEPT !.pc = "panicked"]
    /\ UNCHANGED <<tx, handle, Strict, exited, hist, pre, concVars, watch>>

NextPing ==
    \/ Receive
    \/ Ping
    \/ ChannelClosed

SpecPing == Init /\ [][NextPing]_vars

\* C14: MustPing makes one Ping per tick; when it returns, the Pings before
\* the last all failed and the last succeeded (N failures, N + 1 attempts) and
\* the ticker is stopped; when it panics, the loop found the channel closed
\* and no Ping had succeeded; it never does both.
C14_MustPing ==
    /\ mp.pings = IF mp.pc = "ping" THEN mp.ticks - 1 ELSE mp.ticks
    /\ mp.pc = "returned" => mp.pings = mp.fails + 1 /\ mp.stopped
    /\ mp.pc # "returned" => mp.pings = mp.fails /\ ~mp.stopped

\* MustPing has returned after two failed Pings and a third that succeeded.
C14_Witness ==
    /\ mp.pc = "returned"
    /\ mp.fails = 2
    /\ mp.pings = 3
    /\ mp.ticks = 3
    /\ mp.stopped

\* ------------------------------------------ further properties of Spec

\* The state a call leaves when it set state to Errored and then popped, if
\* it pops: the saved state when the stack was not empty.
ErroredThenPopped(pops) ==
    /\ tx.IsRollbacked = pre.tx.IsRollbacked
    /\ IF pops
       THEN /\ tx.stateStack = Popped(pre.tx.stateStack)
            /\ tx.state = IF Len(pre.tx.stateStack) = 0 THEN txErred
                          ELSE pre.tx.stateStack[Len(pre.tx.stateStack)]
       ELSE /\ tx.stateStack = pre.tx.stateStack
            /\ tx.state = txErred

\* C13 as stated: a failed handle call in any of the four methods sets state
\* to Errored and is returned as an error when strict mode is off, and ends
\* the process, never returning, when strict mode is on.
C13_FailureFatalWhenStrict ==
    (Len(hist) > 0 /\ ~Last.ok) =>
        IF Strict
        THEN exited /\ Last.ret = Fatal /\ ErroredThenPopped(FALSE)
        ELSE /\ ~exited
             /\ Last.ret \notin {Nil, Fatal}
             /\ ErroredThenPopped(Last.op \in {"AutoCommit", "AutoRollback"})

\* C13 amended: a failed handle call sets state to Errored; Commit and
\* Rollback return the error in both modes; AutoCommit and AutoRollback
\* return it, after popping, when strict mode is off and end the process,
\* without popping, when it is on.
C13_FailureFatalOnlyInAuto ==
    (Len(hist) > 0 /\ ~Last.ok) =>
        /\ Last.call # "none"
        /\ IF Last.op \in {"Commit", "Rollback"}
           THEN /\ ~exited
                /\ Last.ret = IF Last.op = "Commit" THEN ErrDriver ELSE ErrUnableToRollback
                /\ ErroredThenPopped(FALSE)
           ELSE IF Strict
           THEN exited /\ Last.ret = Fatal /\ ErroredThenPopped(FALSE)
           ELSE /\ ~exited
                /\ Last.ret = IF Last.op = "AutoCommit" THEN ErrDriver ELSE ErrAutoRollback
                /\ ErroredThenPopped(TRUE)

\* Under strict mode a Commit whose handle call failed has returned its error.
C13_Witness ==
    /\ Called("Commit")
    /\ ~Last.ok
    /\ Strict
    /\ ~exited
    /\ Last.ret = ErrDriver

\* C15: within one nesting level state only leaves Pending: a call that
\* neither pushes nor pops (Commit, Rollback, or an AutoCommit/AutoRollback
\* on an empty stack) made in state Committed, RolledBack or Errored leaves
\* state as it was, and a Commit made in state Errored returns an error
\* without calling the handle.
C15_StateMonotonic ==
    /\ (/\ Len(hist) > 0
        /\ Last.op # "Begin"
        /\ Last.op \in {"Commit", "Rollback"} \/ Len(pre.tx.stateStack) = 0
        /\ pre.tx.state # txPending) => tx.state = pre.tx.state
    /\ (Called("Commit") /\ pre.tx.state = txErred) =>
          Last.ret # Nil /\ Last.call = "none" /\ handle = pre.handle

\* C16: a root-scope Commit whose handle call fails sets state to Errored,
\* returns the handle's error, and leaves stateStack and IsRollbacked alone.
C16_RootCommitFailure ==
    (Called("Commit") /\ Last.call = "Commit" /\ ~Last.ok) =>
        /\ pre.tx.stateStack = <<>>
        /\ tx.state = txErred
        /\ tx.stateStack = pre.tx.stateStack
        /\ tx.IsRollbacked = pre.tx.IsRollbacked
        /\ Last.ret = ErrDriver
        /\ ~exited
        /\ handle.commits = pre.handle.commits + 1

\* A root Commit has failed on a Tx that had been through a nested scope.
C16_Witness ==
    /\ Called("Commit")
    /\ ~Last.ok
    /\ Len(hist) >= 3
    /\ tx.state = txErred
    /\ tx.stateStack = <<>>

\* C17: a Begin, Commit or Rollback that fails a state check (IsRollbacked
\* for the three, state Committed for Commit and Rollback) returns its error
\* to the caller and changes nothing: the Tx is as it was and the handle
\* receives no call.
C17_FailedCheckChangesNothing ==
    (/\ Len(hist) > 0
     /\ \/ Last.op \in {"Begin", "Commit", "Rollback"} /\ pre.tx.IsRollbacked
        \/ Last.op \in {"Commit", "Rollback"} /\ pre.tx.state = txCommitted) =>
        /\ Last.ret \notin {Nil, Fatal}
        /\ ~exited
        /\ tx = pre.tx
        /\ handle = pre.handle
        /\ Last.call = "none"

\* A Rollback refused in a nested scope because the scope was committed.
C17_Witness ==
    /\ Called("Rollback")
    /\ pre.tx.state = txCommitted
    /\ ~pre.tx.IsRollbacked
    /\ Len(pre.tx.stateStack) > 0
    /\ Last.ret = ErrRollbackCommitted

\* A handle call has succeeded.
HandleClosed == \E i \in 1..Len(hist) : hist[i].call # "none" /\ hist[i].ok

\* C19: once a handle Commit or Rollback has succeeded, the watchdog's test
\* (state Pending and IsRollbacked false) is false.
C19_NoLeakAfterClose ==
    HandleClosed => ~Leaked(tx)

\* C20: state RolledBack implies IsRollbacked, no entry of stateStack is
\* RolledBack, and no Commit has returned the 'already rolled back' error of
\* its state == txRollbacked branch: on a rolled-back Tx it returns
\* ErrTxRollbacked.
C20_RolledBackIsSticky ==
    /\ tx.state = txRollbacked => tx.IsRollbacked
    /\ \A i \in 1..Len(tx.stateStack) : tx.stateStack[i] # txRollbacked
    /\ \A i \in 1..Len(hist) : hist[i].ret # ErrRolledBack
    /\ (Called("Commit") /\ (pre.tx.state = txRollbacked \/ pre.tx.IsRollbacked)) =>
          Last.ret = ErrTxRollbacked

\* A Commit made in state RolledBack has returned ErrTxRollbacked.
C20_Witness ==
    /\ Called("Commit")
    /\ pre.tx.state = txRollbacked
    /\ Last.ret = ErrTxRollbacked

\* ---------------------------------------------------------------------------
\* SpecScopes: the scope pattern of the README used sequentially and
\* well-nested.  The root scope is open from creation; an open scope may
\* open nested scopes with Begin; every scope calls Commit explicitly once
\* and ends with the deferred AutoRollback.  The handle's calls never fail.

\* The open scopes after the calls of h, outermost first: FALSE for a scope
\* that has not yet called Commit, TRUE for one that has and now awaits its
\* deferred AutoRollback.  Empty once the root scope has exited.
RECURSIVE Scopes(_)
Scopes(h) ==
    IF Len(h) = 0 THEN <<FALSE>>
    ELSE LET s == Scopes(SubSeq(h, 1, Len(h) - 1))
             e == h[Len(h)]
         IN  CASE e.op = "Begin" -> Append(s, FALSE)
               [] e.op = "Commit" -> [s EXCEPT ![Len(s)] = TRUE]
               [] e.op = "AutoRollback" -> SubSeq(s, 1, Len(s) - 1)
               [] OTHER -> s

Begins == Cardinality({i \in 1..Len(hist) : hist[i].op = "Begin"})

\* An open scope opens a nested scope, before or after its own Commit.
ScopeBegin ==
    /\ Len(Scopes(hist)) > 0
    /\ Begins < MaxScopes
    /\ Begin

\* The innermost open scope commits explicitly; the handle does not fail.
ScopeCommit ==
    /\ Len(Scopes(hist)) > 0
    /\ ~Scopes(hist)[Len(Scopes(hist))]
    /\ Commit
    /\ hist'[Len(hist')].ok

\* The innermost open scope exits: its deferred AutoRollback runs.
ScopeExit ==
    /\ Len(Scopes(hist)) > 0
    /\ Scopes(hist)[Len(Scopes(hist))]
    /\ AutoRollback
    /\ hist'[Len(hist')].ok

NextScopes ==
    \/ ScopeBegin
    \/ ScopeCommit
    \/ ScopeExit

SpecScopes == Init /\ [][NextScopes]_vars

\* C18: in the scope pattern every Commit returns nil; a call reaches the
\* handle exactly from the Commit of the outermost scope, and it is a Commit;
\* no Rollback reaches the handle; the handle has received one Commit once
\* the root scope has committed, and none before.
C18_ScopePatternCommitsOnce ==
    /\ \A i \in 1..Len(hist) :
          /\ hist[i].ret = Nil
          /\ hist[i].call \in {"none", "Commit"}
          /\ hist[i].call = "Commit" <=>
                 /\ hist[i].op = "Commit"
                 /\ Len(Scopes(SubSeq(hist, 1, i - 1))) = 1
    /\ handle.rollbacks = 0
    /\ handle.commits = Cardinality({i \in 1..Len(hist) : hist[i].call = "Commit"})
    /\ handle.commits <= 1
    /\ (Len(Scopes(hist)) = 0 \/ Scopes(hist)[1]) => handle.commits = 1

\* The root scope has exited after a scope nested in a nested scope and a
\* second scope nested in the root have both committed and exited.
C18_Witness ==
    /\ Len(Scopes(hist)) = 0
    /\ Begins = 3
    /\ \E i \in 1..Len(hist) : Len(Scopes(SubSeq(hist, 1, i))) = 3
    /\ hist[Len(hist) - 1].op = "Commit"
    /\ hist[Len(hist) - 1].call = "Commit"

====
